---- MODULE Spec2Model ----
(***************************************************************************)
(* Drizzle migration-journal reconciliation scripts:                       *)
(*   .github/scripts/merge_drizzle_journals.py      (Cross-Branch Merger)  *)
(*   .github/scripts/cleanup_drizzle_journal.py     (Orphan Pruner)        *)
(*   .github/scripts/renumber_drizzle_migrations.py (Disk Deduplicator)    *)
(*                                                                         *)
(* Strings are sequences of one-character strings, so that formatting      *)
(* (f"{n:04d}_{name}"), splitting on "_", the file-name regular expression *)
(* and lexicographic sorting are computed, not assumed.  A journal entry   *)
(* is the record [idx, tag]; the pass-through fields version, when and     *)
(* breakpoints are never read by the scripts and are left out, and so are   *)
(* the snapshot files of META_DIR, which are moved along with a renamed    *)
(* migration file and read by nothing else.  Indices are non-negative.     *)
(***************************************************************************)
EXTENDS Integers, Sequences, FiniteSets, TLC

VARIABLES theirs, ours, merged, renameMap, mergeStatus,
          journal, files, runs

vars == <<theirs, ours, merged, renameMap, mergeStatus, journal, files, runs>>
mergeVars == <<theirs, ours, merged, renameMap, mergeStatus>>
reconVars == <<journal, files, runs>>

----------------------------------------------------------------------------
(* Bounds of the model *)
MaxIdx == 2
MaxBaseLen == 2
MaxFeatureLen == 3
MaxJournalIdx == 3
MaxJournalLen == 2
MaxNum == 1
MaxFiles == 3
MaxRuns == 2
ExitMaxIdx == 0

----------------------------------------------------------------------------
(* Character-level string helpers *)

Range(s) == {s[i] : i \in 1..Len(s)}

DigitChars == <<"0", "1", "2", "3", "4", "5", "6", "7", "8", "9">>

DigitSet == Range(DigitChars)

IsDigit(c) == c \in DigitSet

DigitValues == [c \in DigitSet |-> CHOOSE d \in 0..9 : DigitChars[d + 1] = c]

DigitVal(c) == DigitValues[c]

\* str(n) for n >= 0
RECURSIVE Str(_)
Str(n) == IF n < 10 THEN <<DigitChars[n + 1]>>
          ELSE Str(n \div 10) \o <<DigitChars[(n % 10) + 1]>>

\* f"{n:04d}" for n >= 0: decimal digits, left-padded with zeros to width 4
Fmt04(n) ==
    LET s == Str(n)
    IN  IF Len(s) >= 4 THEN s ELSE [i \in 1..(4 - Len(s)) |-> "0"] \o s

\* int(s) for a non-empty string of digits
RECURSIVE IntOf(_)
IntOf(s) == IF Len(s) = 0 THEN 0
            ELSE 10 * IntOf(SubSeq(s, 1, Len(s) - 1)) + DigitVal(s[Len(s)])

\* s.split('_')
RECURSIVE Split(_)
Split(s) ==
    IF \A i \in 1..Len(s) : s[i] # "_" THEN <<s>>
    ELSE LET k == CHOOSE i \in 1..Len(s) :
                      s[i] = "_" /\ \A j \in 1..(i - 1) : s[j] # "_"
         IN  <<SubSeq(s, 1, k - 1)>> \o Split(SubSeq(s, k + 1, Len(s)))

\* '_'.join(parts)
RECURSIVE Join(_)
Join(parts) ==
    IF Len(parts) = 0 THEN <<>>
    ELSE IF Len(parts) = 1 THEN parts[1]
    ELSE parts[1] \o <<"_">> \o Join(Tail(parts))

\* code point of the characters that occur in the model
CodePoints ==
    [c \in DigitSet \cup {".", "_", "a", "b", "c", "l", "q", "s"} |->
        CASE c = "." -> 46
          [] c \in DigitSet -> 48 + DigitVal(c)
          [] c = "_" -> 95
          [] c = "a" -> 97
          [] c = "b" -> 98
          [] c = "c" -> 99
          [] c = "l" -> 108
          [] c = "q" -> 113
          [] c = "s" -> 115]

Ord(c) == CodePoints[c]

\* Python's str < str
RECURSIVE StrLess(_, _)
StrLess(a, b) ==
    IF Len(b) = 0 THEN FALSE
    ELSE IF Len(a) = 0 THEN TRUE
    ELSE IF a[1] # b[1] THEN Ord(a[1]) < Ord(b[1])
    ELSE StrLess(Tail(a), Tail(b))

----------------------------------------------------------------------------
(* Journal helpers shared by the three scripts *)

\* max((e.get('idx', 0) for e in entries), default=-1)
RECURSIVE MaxIdxOf(_)
MaxIdxOf(entries) ==
    IF Len(entries) = 0 THEN -1
    ELSE LET m == MaxIdxOf(Tail(entries))
         IN  IF entries[1].idx > m THEN entries[1].idx ELSE m

TagsOf(entries) == {entries[i].tag : i \in 1..Len(entries)}

IndicesOf(entries) == {entries[i].idx : i \in 1..Len(entries)}

\* insert e after the last element whose idx is <= e.idx (keeps list.sort stable)
RECURSIVE InsertByIdx(_, _)
InsertByIdx(sorted, e) ==
    IF Len(sorted) = 0 THEN <<e>>
    ELSE IF sorted[Len(sorted)].idx <= e.idx THEN Append(sorted, e)
    ELSE Append(InsertByIdx(SubSeq(sorted, 1, Len(sorted) - 1), e),
                sorted[Len(sorted)])

\* entries.sort(key=lambda x: x.get('idx', 0)), a stable sort
RECURSIVE SortByIdx(_)
SortByIdx(entries) ==
    IF Len(entries) = 0 THEN <<>>
    ELSE InsertByIdx(SortByIdx(SubSeq(entries, 1, Len(entries) - 1)),
                     entries[Len(entries)])

----------------------------------------------------------------------------
(* Inputs *)

Names == {<<"a">>, <<"b">>}

MkTag(n, name) == Fmt04(n) \o <<"_">> \o name

EntryPool(maxIdx) ==
    {[idx |-> i, tag |-> MkTag(i, n)] : i \in 0..maxIdx, n \in Names}
    \cup {[idx |-> maxIdx, tag |-> <<"c">>]}

Distinct(entries) ==
    \A i, j \in 1..Len(entries) :
        i # j => entries[i].idx # entries[j].idx /\ entries[i].tag # entries[j].tag

\* journals whose indices and tags are pairwise distinct, in any order
Journals(maxIdx, maxLen) ==
    {s \in UNION {[1..n -> EntryPool(maxIdx)] : n \in 0..maxLen} : Distinct(s)}

\* the journal the migration directory holds is kept in ascending index order
Ascending(entries) ==
    \A i \in 1..(Len(entries) - 1) : entries[i].idx < entries[i + 1].idx

\* a journal file: missing/unparseable, or a parsed journal
Unreadable == [ok |-> FALSE, entries |-> <<>>]

JournalFiles(maxIdx, maxLen) ==
    {Unreadable} \cup {[ok |-> TRUE, entries |-> s] : s \in Journals(maxIdx, maxLen)}

Absent == [exists |-> FALSE, entries |-> <<>>]

----------------------------------------------------------------------------
(* merge_drizzle_journals.py *)

\* the name part of a tag: everything after the number prefix
NamePart(old_tag) ==
    IF "_" \in Range(old_tag) THEN Join(Tail(Split(old_tag))) ELSE old_tag

\* rename_map[old] = new on an insertion-ordered dict
MapPut(map, old, new) ==
    IF \E k \in 1..Len(map) : map[k].old = old
    THEN [k \in 1..Len(map) |->
             IF map[k].old = old THEN [old |-> old, new |-> new] ELSE map[k]]
    ELSE Append(map, [old |-> old, new |-> new])

ConflictsAlways(old_idx, theirs_indices) == TRUE

\* if old_idx in theirs_indices
Conflicts(old_idx, theirs_indices) == old_idx \in theirs_indices

\* new_idx = base_max_idx + 1 + i
NewIdx(base_max_idx, i) == base_max_idx + 1 + i

\* the loop over enumerate(pr_entries); i is Python's i plus one
RECURSIVE RenumberLoop(_, _, _, _, _, _)
RenumberLoop(pr_entries, theirs_indices, i, base_max_idx, renumbered_entries, rename_map) ==
    IF i > Len(pr_entries)
    THEN [entries |-> renumbered_entries, map |-> rename_map]
    ELSE LET entry == pr_entries[i]
             old_idx == entry.idx
             old_tag == entry.tag
         IN  IF Conflicts(old_idx, theirs_indices)
             THEN LET new_idx == NewIdx(base_max_idx, i - 1)
                      new_tag == Fmt04(new_idx) \o <<"_">> \o NamePart(old_tag)
                  IN  RenumberLoop(pr_entries, theirs_indices, i + 1, new_idx,
                          Append(renumbered_entries, [idx |-> new_idx, tag |-> new_tag]),
                          MapPut(rename_map, old_tag, new_tag))
             ELSE RenumberLoop(pr_entries, theirs_indices, i + 1, base_max_idx,
                          Append(renumbered_entries, entry), rename_map)

PrEntriesByIndex(theirs_entries, ours_entries) ==
    SelectSeq(ours_entries, LAMBDA e : e.idx \notin IndicesOf(theirs_entries))

\* pr_entries = [e for e in ours_entries if e.get('tag') not in theirs_tags]
PrEntries(theirs_entries, ours_entries) ==
    SelectSeq(ours_entries, LAMBDA e : e.tag \notin TagsOf(theirs_entries))

MergeResult(theirs_entries, ours_entries) ==
    RenumberLoop(PrEntries(theirs_entries, ours_entries), IndicesOf(theirs_entries),
                 1, MaxIdxOf(theirs_entries), <<>>, <<>>)

\* json.load of either input fails: exit(1), nothing written
MergeLoadError ==
    /\ mergeStatus = "pending"
    /\ ~(theirs.ok /\ ours.ok)
    /\ mergeStatus' = "exit1"
    /\ UNCHANGED <<theirs, ours, merged, renameMap>>

\* PR-specific migrations exist: renumber the conflicting ones, write both outputs
MergeRenumber ==
    /\ mergeStatus = "pending"
    /\ theirs.ok /\ ours.ok
    /\ PrEntries(theirs.entries, ours.entries) # <<>>
    /\ LET r == MergeResult(theirs.entries, ours.entries)
       IN  /\ renameMap' = [exists |-> TRUE, lines |-> r.map]
           /\ merged' = [exists |-> TRUE,
                         entries |-> SortByIdx(theirs.entries \o r.entries)]
    /\ mergeStatus' = "exit0"
    /\ UNCHANGED <<theirs, ours>>

\* no PR-specific migrations: copy the base journal, write an empty rename map
MergeCopyBase ==
    /\ mergeStatus = "pending"
    /\ theirs.ok /\ ours.ok
    /\ PrEntries(theirs.entries, ours.entries) = <<>>
    /\ merged' = [exists |-> TRUE, entries |-> theirs.entries]
    /\ renameMap' = [exists |-> TRUE, lines |-> <<>>]
    /\ mergeStatus' = "exit0"
    /\ UNCHANGED <<theirs, ours>>

MergeMain ==
    /\ (MergeLoadError \/ MergeRenumber \/ MergeCopyBase)
    /\ UNCHANGED reconVars

NoMergeOutput == [exists |-> FALSE, lines |-> <<>>]

InitMerge ==
    /\ theirs \in JournalFiles(MaxIdx, MaxBaseLen)
    /\ ours \in JournalFiles(MaxIdx, MaxFeatureLen)
    /\ merged = Absent
    /\ renameMap = NoMergeOutput
    /\ mergeStatus = "pending"
    /\ journal = Unreadable
    /\ files = {}
    /\ runs = <<>>

SpecMerge == InitMerge /\ [][MergeMain]_vars

----------------------------------------------------------------------------
(* Directory listing and file names *)

DotSql == <<".", "s", "q", "l">>

\* f.endswith('.sql')
EndsWithSql(f) == Len(f) >= 4 /\ SubSeq(f, Len(f) - 3, Len(f)) = DotSql

\* length of the longest prefix of f made of digits
RECURSIVE DigitPrefixLen(_)
DigitPrefixLen(f) ==
    IF Len(f) = 0 \/ ~IsDigit(f[1]) THEN 0 ELSE 1 + DigitPrefixLen(Tail(f))

\* re.match(r'^(\d+)_(.+)\.sql$', sql_file)
Matches(f) ==
    LET d == DigitPrefixLen(f)
    IN  /\ d >= 1
        /\ Len(f) >= d + 6
        /\ f[d + 1] = "_"
        /\ EndsWithSql(f)

\* the dict built for a matching file (lines 58-61)
FileInfo(f) ==
    LET d == DigitPrefixLen(f)
    IN  [file |-> f,
         tag  |-> SubSeq(f, 1, Len(f) - 4),
         name |-> SubSeq(f, d + 2, Len(f) - 4),
         num  |-> IntOf(SubSeq(f, 1, d))]

\* sorted(S) for a set of strings
RECURSIVE SortStr(_)
SortStr(S) ==
    IF S = {} THEN <<>>
    ELSE LET m == CHOOSE x \in S : \A y \in S \ {x} : StrLess(x, y)
         IN  <<m>> \o SortStr(S \ {m})

RECURSIVE SortInts(_)
SortInts(S) ==
    IF S = {} THEN <<>>
    ELSE LET m == CHOOSE x \in S : \A y \in S : x <= y
         IN  <<m>> \o SortInts(S \ {m})

MaxOf(S) == CHOOSE x \in S : \A y \in S : y <= x

\* sql_files: the .sql files of the directory, sorted
SqlFiles(dir) == SortStr({f \in dir : EndsWithSql(f)})

\* the file dicts of the matching files, in the order of sql_files (lines 55-62)
FileInfos(sql_files) ==
    LET matching == SelectSeq(sql_files, Matches)
    IN  [k \in 1..Len(matching) |-> FileInfo(matching[k])]

\* by_number[num]
ByNumber(infos, num) == SelectSeq(infos, LAMBDA fi : fi.num = num)

\* by_number.keys()
DiskNumbers(infos) == {infos[k].num : k \in 1..Len(infos)}

DiskMinNum(infos) ==
    IF DiskNumbers(infos) = {} THEN -1
    ELSE CHOOSE x \in DiskNumbers(infos) : \A y \in DiskNumbers(infos) : x <= y

\* max_num = max(by_number.keys()) if by_number else -1
DiskMaxNum(infos) == IF DiskNumbers(infos) = {} THEN -1 ELSE MaxOf(DiskNumbers(infos))

\* recent_threshold = max(max_num - 5, max_journal_idx - 2, 0)
RecentThreshold(max_num, max_journal_idx) ==
    MaxOf({max_num - 5, max_journal_idx - 2, 0})

FilePool ==
    {MkTag(n, name) \o DotSql : n \in 0..MaxNum, name \in Names}
    \cup {<<"c">> \o DotSql, <<"1", "_", "a">> \o DotSql}

----------------------------------------------------------------------------
(* cleanup_drizzle_journal.py *)

\* os.path.exists(os.path.join(drizzle_dir, f"{tag}.sql"))
SqlExists(dir, tag) == (tag \o DotSql) \in dir

\* the loop over entries: valid_entries and the removed counter
RECURSIVE PruneLoop(_, _, _, _)
PruneLoop(entries, dir, valid_entries, removed) ==
    IF Len(entries) = 0 THEN [valid |-> valid_entries, removed |-> removed]
    ELSE IF SqlExists(dir, entries[1].tag)
         THEN PruneLoop(Tail(entries), dir, Append(valid_entries, entries[1]), removed)
         ELSE PruneLoop(Tail(entries), dir, valid_entries, removed + 1)

PruneWritesAfterTwo(removed) == removed > 1

\* if removed > 0: rewrite the journal
PruneWrites(removed) == removed > 0

RunRecord(tool, status, wrote, renames, appended) ==
    [tool |-> tool, status |-> status, wrote |-> wrote, renames |-> renames,
     appended |-> appended, journalBefore |-> journal, filesBefore |-> files]

\* json.load fails: exit(0)
CleanupLoadError ==
    /\ ~journal.ok
    /\ runs' = Append(runs, RunRecord("cleanup", "exit0", FALSE, <<>>, <<>>))
    /\ UNCHANGED <<journal, files>>

CleanupPrune ==
    /\ journal.ok
    /\ LET r == PruneLoop(journal.entries, files, <<>>, 0)
       IN  /\ journal' = IF PruneWrites(r.removed)
                         THEN [ok |-> TRUE, entries |-> r.valid] ELSE journal
           /\ runs' = Append(runs, RunRecord("cleanup", "exit0",
                                             PruneWrites(r.removed), <<>>, <<>>))
    /\ UNCHANGED files

CleanupMain ==
    /\ Len(runs) < MaxRuns
    /\ (CleanupLoadError \/ CleanupPrune)
    /\ UNCHANGED mergeVars

----------------------------------------------------------------------------
(* renumber_drizzle_migrations.py *)

RenumberLoadExitZero == "exit0"

\* exit status when json.load fails (line 30)
RenumberLoadExit == "exit1"

NewEntryOldNum(file_info, max_num, new_tag) == [idx |-> file_info.num, tag |-> new_tag]

\* new_entry = {'idx': max_num, ..., 'tag': new_tag, ...}
NewEntry(file_info, max_num, new_tag) == [idx |-> max_num, tag |-> new_tag]

\* the two "for file_info in ..." loops (lines 97-127 and 135-159); st carries
\* max_num, the directory, new_entries and the renames performed
RECURSIVE RenameLoop(_, _)
RenameLoop(todo, st) ==
    IF Len(todo) = 0 THEN st
    ELSE LET file_info == todo[1]
             max_num == st.max_num + 1
             new_tag == Fmt04(max_num) \o <<"_">> \o file_info.name
             new_file == new_tag \o DotSql
         IN  RenameLoop(Tail(todo),
                 [max_num |-> max_num,
                  dir |-> (st.dir \ {file_info.file}) \cup {new_file},
                  new_entries |-> Append(st.new_entries,
                                         NewEntry(file_info, max_num, new_tag)),
                  renames |-> Append(st.renames,
                                     [old |-> file_info.file, new |-> new_file,
                                      clobbers |-> new_file \in st.dir])])

\* the files of one number that get renumbered (lines 86-161)
ToRenumber(group, journal_tags) ==
    LET in_journal == SelectSeq(group, LAMBDA f : f.tag \in journal_tags)
        not_in_journal == SelectSeq(group, LAMBDA f : f.tag \notin journal_tags)
    IN  IF Len(group) > 1
        THEN IF Len(not_in_journal) > 0 /\ Len(in_journal) > 0
             THEN not_in_journal
             ELSE IF Len(not_in_journal) > 1
                  THEN Tail(not_in_journal)
                  ELSE <<>>
        ELSE <<>>

\* for num in sorted(by_number.keys())
RECURSIVE NumberLoop(_, _, _, _, _)
NumberLoop(nums, infos, journal_tags, recent_threshold, st) ==
    IF Len(nums) = 0 THEN st
    ELSE IF nums[1] < recent_threshold
         THEN NumberLoop(Tail(nums), infos, journal_tags, recent_threshold, st)
         ELSE NumberLoop(Tail(nums), infos, journal_tags, recent_threshold,
                  RenameLoop(ToRenumber(ByNumber(infos, nums[1]), journal_tags), st))

RenumberResult(entries, dir) ==
    LET infos == FileInfos(SqlFiles(dir))
        max_num == DiskMaxNum(infos)
    IN  NumberLoop(SortInts(DiskNumbers(infos)), infos, TagsOf(entries),
                   RecentThreshold(max_num, MaxIdxOf(entries)),
                   [max_num |-> max_num, dir |-> dir,
                    new_entries |-> <<>>, renames |-> <<>>])

\* json.load fails: exit(1)
RenumberLoadError ==
    /\ ~journal.ok
    /\ runs' = Append(runs, RunRecord("renumber", RenumberLoadExit, FALSE, <<>>, <<>>))
    /\ UNCHANGED <<journal, files>>

\* if not sql_files: return
RenumberNoSqlFiles ==
    /\ journal.ok
    /\ {f \in files : EndsWithSql(f)} = {}
    /\ runs' = Append(runs, RunRecord("renumber", "exit0", FALSE, <<>>, <<>>))
    /\ UNCHANGED <<journal, files>>

RenumberProcess ==
    /\ journal.ok
    /\ {f \in files : EndsWithSql(f)} # {}
    /\ LET r == RenumberResult(journal.entries, files)
           wrote == r.new_entries # <<>>
       IN  /\ files' = r.dir
           /\ journal' = IF wrote
                         THEN [ok |-> TRUE,
                               entries |-> SortByIdx(journal.entries \o r.new_entries)]
                         ELSE journal
           /\ runs' = Append(runs, RunRecord("renumber", "exit0", wrote,
                                             r.renames, r.new_entries))

RenumberMain ==
    /\ Len(runs) < MaxRuns
    /\ (RenumberLoadError \/ RenumberNoSqlFiles \/ RenumberProcess)
    /\ UNCHANGED mergeVars

InitRecon ==
    /\ journal \in JournalFiles(MaxJournalIdx, MaxJournalLen)
    /\ Ascending(journal.entries)
    /\ files \in SUBSET FilePool
    /\ Cardinality(files) <= MaxFiles
    /\ runs = <<>>
    /\ theirs = Unreadable
    /\ ours = Unreadable
    /\ merged = Absent
    /\ renameMap = NoMergeOutput
    /\ mergeStatus = "pending"

NextRecon == CleanupMain \/ RenumberMain

SpecRecon == InitRecon /\ [][NextRecon]_vars

----------------------------------------------------------------------------
(* The three scripts side by side, on small inputs *)

InitAll ==
    /\ theirs \in JournalFiles(ExitMaxIdx, 1)
    /\ ours \in JournalFiles(ExitMaxIdx, 1)
    /\ merged = Absent
    /\ renameMap = NoMergeOutput
    /\ mergeStatus = "pending"
    /\ journal \in JournalFiles(ExitMaxIdx, 1)
    /\ files \in SUBSET {MkTag(0, <<"a">>) \o DotSql, MkTag(0, <<"b">>) \o DotSql}
    /\ runs = <<>>

NextAll == MergeMain \/ CleanupMain \/ RenumberMain

SpecAll == InitAll /\ [][NextAll]_vars

----------------------------------------------------------------------------
(* Properties *)

LastRun == runs[Len(runs)]

MergedOk == mergeStatus = "exit0"

FeatureOnly == PrEntries(theirs.entries, ours.entries)

\* the feature-only entries whose index is the index of a base entry
Conflicting == SelectSeq(FeatureOnly, LAMBDA e : e.idx \in IndicesOf(theirs.entries))

MapKeys == {renameMap.lines[k].old : k \in 1..Len(renameMap.lines)}

\* C1: the merged journal has no two entries with the same index and no two
\* with the same tag, whenever both input journals have that property.
C1_MergedUnique ==
    (MergedOk /\ Distinct(theirs.entries) /\ Distinct(ours.entries))
        => Distinct(merged.entries)

\* C2: the journal left by a Deduplicator pass has no two entries with the
\* same index and no two with the same tag, whenever the input journal had
\* that property.
C2_DedupUnique ==
    (/\ Len(runs) > 0
     /\ LastRun.tool = "renumber"
     /\ LastRun.status = "exit0"
     /\ Distinct(LastRun.journalBefore.entries))
        => Distinct(journal.entries)

\* C3 as stated: the tags of the merged journal are a superset of the tags
\* of the base journal and of the feature journal.
C3_TagsSuperset ==
    MergedOk =>
        (TagsOf(theirs.entries) \cup TagsOf(ours.entries)) \subseteq TagsOf(merged.entries)

\* C3: every tag of the base journal or of the feature journal is in the
\* merged journal, either itself or, for a renumbered feature-only entry, as
\* the new tag the rename map gives for it.
C3_TagsKeptOrRenamed ==
    MergedOk =>
        \A t \in TagsOf(theirs.entries) \cup TagsOf(ours.entries) :
            \/ t \in TagsOf(merged.entries)
            \/ \E k \in 1..Len(renameMap.lines) :
                  /\ renameMap.lines[k].old = t
                  /\ renameMap.lines[k].new \in TagsOf(merged.entries)

C3_Witness ==
    /\ MergedOk
    /\ Len(renameMap.lines) > 0
    /\ ~(TagsOf(ours.entries) \subseteq TagsOf(merged.entries))

\* C4: a feature-only entry whose index is not a base index is in the merged
\* journal with its original index and tag and has no line in the rename
\* map; every base entry is in the merged journal unchanged.
C4_ConflictOnly ==
    MergedOk =>
        /\ \A i \in 1..Len(FeatureOnly) :
              FeatureOnly[i].idx \notin IndicesOf(theirs.entries)
                  => /\ FeatureOnly[i] \in Range(merged.entries)
                     /\ FeatureOnly[i].tag \notin MapKeys
        /\ \A i \in 1..Len(theirs.entries) :
              theirs.entries[i] \in Range(merged.entries)

C4_Witness ==
    /\ MergedOk
    /\ Len(Conflicting) > 0
    /\ Len(FeatureOnly) > Len(Conflicting)
    /\ Len(theirs.entries) > 1

\* the name suffix of a tag: everything after the first "_", empty without one
NameSuffix(tag) ==
    IF "_" \in Range(tag)
    THEN LET k == CHOOSE i \in 1..Len(tag) :
                      tag[i] = "_" /\ \A j \in 1..(i - 1) : tag[j] # "_"
         IN  SubSeq(tag, k + 1, Len(tag))
    ELSE <<>>

ExpectedRenumbered(j) ==
    [idx |-> MaxIdxOf(theirs.entries) + j,
     tag |-> Fmt04(MaxIdxOf(theirs.entries) + j) \o <<"_">> \o NameSuffix(Conflicting[j].tag)]

\* C10: the k conflicting feature-only entries get, in feature order, the
\* indices baseMaxIndex+1 .. baseMaxIndex+k and the tags built from them, and
\* the rename map holds exactly their old tag -> new tag lines.
C10_ContiguousRun ==
    MergedOk =>
        /\ Len(renameMap.lines) = Len(Conflicting)
        /\ \A j \in 1..Len(Conflicting) :
              /\ ExpectedRenumbered(j) \in Range(merged.entries)
              /\ j <= Len(renameMap.lines)
              /\ renameMap.lines[j] = [old |-> Conflicting[j].tag,
                                       new |-> ExpectedRenumbered(j).tag]

SqlFileSet(dir) == {f \in dir : EndsWithSql(f)}

\* C5: a Deduplicator pass that directly follows a Deduplicator pass renames
\* no file, appends no entry and does not rewrite the journal.
C5_SecondPassIdle ==
    \A i \in 1..(Len(runs) - 1) :
        (runs[i].tool = "renumber" /\ runs[i + 1].tool = "renumber")
            => /\ runs[i + 1].renames = <<>>
               /\ runs[i + 1].appended = <<>>
               /\ ~runs[i + 1].wrote
               /\ (i + 1 = Len(runs)
                      => /\ journal = runs[i + 1].journalBefore
                         /\ files = runs[i + 1].filesBefore)

C5_Witness ==
    /\ Len(runs) = 2
    /\ runs[1].tool = "renumber" /\ runs[2].tool = "renumber"
    /\ Len(runs[1].renames) > 1

\* C6: every rename of a Deduplicator pass goes to a name no file has, the
\* number of migration files is the same after the pass, and each renamed
\* file has an appended journal entry whose tag is the new file name without
\* extension and whose index is the new numeric prefix.
C6_NoFileLost ==
    (Len(runs) > 0 /\ LastRun.tool = "renumber") =>
        /\ Cardinality(SqlFileSet(files)) = Cardinality(SqlFileSet(LastRun.filesBefore))
        /\ Len(LastRun.appended) = Len(LastRun.renames)
        /\ \A k \in 1..Len(LastRun.renames) :
              LET r == LastRun.renames[k]
              IN  /\ ~r.clobbers
                  /\ r.old \in LastRun.filesBefore /\ r.old \notin files
                  /\ r.new \in files
                  /\ Matches(r.new)
                  /\ k <= Len(LastRun.appended)
                  /\ LastRun.appended[k].tag = FileInfo(r.new).tag
                  /\ LastRun.appended[k].idx = FileInfo(r.new).num
                  /\ LastRun.appended[k] \in Range(journal.entries)

C6_Witness ==
    /\ Len(runs) > 0
    /\ LastRun.tool = "renumber"
    /\ Len(LastRun.renames) > 1
    /\ Len(LastRun.journalBefore.entries) > 0

NoChange(i) ==
    /\ ~runs[i].wrote
    /\ runs[i].renames = <<>>
    /\ runs[i].appended = <<>>
    /\ IF i = Len(runs)
       THEN journal = runs[i].journalBefore /\ files = runs[i].filesBefore
       ELSE /\ runs[i + 1].journalBefore = runs[i].journalBefore
            /\ runs[i + 1].filesBefore = runs[i].filesBefore

MergerFailsHard ==
    (mergeStatus # "pending" /\ ~(theirs.ok /\ ours.ok))
        => /\ mergeStatus = "exit1"
           /\ merged = Absent
           /\ renameMap = NoMergeOutput

C8_PrunerResult ==
    (Len(runs) > 0 /\ LastRun.tool = "cleanup" /\ LastRun.journalBefore.ok) =>
        /\ journal.ok
        /\ journal.entries =
               SelectSeq(LastRun.journalBefore.entries,
                         LAMBDA e : (e.tag \o DotSql) \in LastRun.filesBefore)
        /\ LastRun.wrote <=> (Len(journal.entries) < Len(LastRun.journalBefore.entries))
        /\ files = LastRun.filesBefore
        /\ LastRun.renames = <<>>

C8_Witness ==
    /\ Len(runs) > 0
    /\ LastRun.tool = "cleanup"
    /\ LastRun.wrote
    /\ Len(journal.entries) = 1
    /\ Len(LastRun.journalBefore.entries) = 2
    /\ journal.entries[1] = LastRun.journalBefore.entries[2]

\* C9: after the Pruner and then the Deduplicator have run, every migration
\* file has exactly one journal entry with its name as tag, and every
\* journal entry has exactly one such file.
C9_OneToOne ==
    (/\ Len(runs) = 2
     /\ runs[1].tool = "cleanup" /\ runs[1].status = "exit0" /\ runs[1].journalBefore.ok
     /\ runs[2].tool = "renumber" /\ runs[2].status = "exit0")
        => /\ \A f \in {g \in files : Matches(g)} :
                 Cardinality({i \in 1..Len(journal.entries) :
                                 journal.entries[i].tag \o DotSql = f}) = 1
           /\ \A i \in 1..Len(journal.entries) :
                 /\ (journal.entries[i].tag \o DotSql) \in files
                 /\ \A j \in 1..Len(journal.entries) :
                       journal.entries[j].tag = journal.entries[i].tag => j = i

====
